---------------------------- MODULE Spec2Model ----------------------------
(***************************************************************************)
(* Rental lifecycle and billing engine of the car rental management        *)
(* system: the Rental model (rentals/models.py), the lifecycle views       *)
(* (rentals/views.py) and the batch sweep (update_expired_rentals.py).     *)
(*                                                                         *)
(* Money is an integer number of cents.  Dates are day numbers starting at *)
(* 1; the clock `now` counts ticks, TicksPerDay of them to a day.          *)
(***************************************************************************)
EXTENDS Integers, Sequences, FiniteSets, TLC

\* ------------------------------------------------------------------ bounds
\* Spec: rows of the rentals table, payments the collaborator records
MaxRentals == 2
MaxPayments == 1
\* SpecLedger: the same for the one-order ledger runs
LedgerRentals == 1
LedgerPayments == 2
\* SpecBatch: payments the collaborator records
BatchPayments == 2
\* days of the calendar, and clock ticks to a day
MaxDay == 2
TicksPerDay == 1
\* cancellation reasons one order's notes hold
MaxNotes == 1
\* total_amount stays within this many days of the vehicle's daily rate
MaxBilledDays == 3
\* SpecSweep: rows of the rentals table
SweepRentals == 3
\* SpecPricing: days of the calendar a quote is asked for
MaxPriceDay == 4

\* ------------------------------------------------- nullable field values
\* actual_return_date = models.DateField(blank=True, null=True)
NoDate == 0
\* settled_at = models.DateTimeField(blank=True, null=True)
NoTime == -1
\* user = models.OneToOneField(User, null=True): no linked account
NoUser == 0

\* ------------------------------------------------ registry (collaborators)
Vehicles == {1, 2}
Customers == {1, 2}
Users == {1}

\* Vehicle.daily_rate in cents (100.00 and 200.00 a day).
daily_rate(v) == IF v = 1 THEN 10000 ELSE 20000

\* Customer.member_level
member_level(c) == IF c = 1 THEN "NORMAL" ELSE "VIP"

\* Customer.user: customer 1 has a linked account, customer 2 has none.
customer_user(c) == IF c = 1 THEN 1 ELSE NoUser

RENTAL_STATUS_CHOICES == {"PENDING", "ONGOING", "COMPLETED", "CANCELLED"}
SETTLEMENT_STATUS_CHOICES == {"UNSETTLED", "PARTIAL", "SETTLED"}

MaxNow == MaxDay * TicksPerDay - 1
Days == 1..MaxDay

VARIABLES
    rentals,    \* the rentals table: a sequence of rows, the row's index its id
    vehicles,   \* Vehicle.status of every vehicle
    payments,   \* the payments table in creation order
    now,        \* the clock (timezone.now()), in ticks
    out,        \* the response of the last operation
    sweep       \* the position and locals of the sweep process that runs
                \* phase by phase

vars == <<rentals, vehicles, payments, now, out, sweep>>

\* date.today()
today == (now \div TicksPerDay) + 1

RentalIds == 1..Len(rentals)

\* ------------------------------------------------------------ pure helpers
RECURSIVE SumAmounts(_)
SumAmounts(ps) ==
    IF ps = <<>> THEN 0 ELSE Head(ps).amount + SumAmounts(Tail(ps))

\* Payment.objects.filter(rental=r, status=st, transaction_type=tt)
\*     .aggregate(total=Sum('amount'))['total'] or Decimal('0.00')
aggregate(pays, r, tt, st) ==
    SumAmounts(SelectSeq(pays,
        LAMBDA p : p.rental = r /\ p.transaction_type = tt /\ p.status = st))

\* Rental.rental_days
rental_days(rn) == (rn.end_date - rn.start_date) + 1

\* Rental.save: the defaults applied on every save.
save(rn) ==
    LET rate == daily_rate(rn.vehicle)
        a == IF rn.total_amount = 0
             THEN [rn EXCEPT !.total_amount = rate * rental_days(rn)]
             ELSE rn
        b == IF a.deposit = 0 THEN [a EXCEPT !.deposit = rate * 10] ELSE a
        c == IF b.is_cross_location_return /\ b.cross_location_fee = 0
             THEN [b EXCEPT !.cross_location_fee = (rate * 5) \div 10]
             ELSE b
    IN  c

\* Rental.calculate_order_total
calculate_order_total(rn) ==
    LET cross_location_fee ==
            IF ~rn.is_cross_location_return THEN 0 ELSE rn.cross_location_fee
    IN  rn.total_amount + rn.deposit + cross_location_fee

\* refresh_financials without the status test of line 236
refresh_financials_any_status(rn, r, pays, t) ==
    LET paid_total == aggregate(pays, r, "CHARGE", "PAID")
        refunded_total == aggregate(pays, r, "REFUND", "REFUNDED")
        order_total == calculate_order_total(rn)
        base == [rn EXCEPT !.amount_paid = paid_total,
                           !.amount_refunded = refunded_total]
    IN  IF order_total <= paid_total
        THEN [base EXCEPT !.settlement_status = "SETTLED",
                          !.settled_at = IF rn.settled_at = NoTime
                                         THEN t ELSE rn.settled_at]
        ELSE IF paid_total > 0
        THEN [base EXCEPT !.settlement_status = "PARTIAL"]
        ELSE [base EXCEPT !.settlement_status = "UNSETTLED",
                          !.settled_at = NoTime]

\* refresh_financials stamping settled_at on every settled refresh
refresh_financials_restamp(rn, r, pays, t) ==
    LET paid_total == aggregate(pays, r, "CHARGE", "PAID")
        refunded_total == aggregate(pays, r, "REFUND", "REFUNDED")
        order_total == calculate_order_total(rn)
        base == [rn EXCEPT !.amount_paid = paid_total,
                           !.amount_refunded = refunded_total]
    IN  IF rn.status = "COMPLETED" /\ order_total <= paid_total
        THEN [base EXCEPT !.settlement_status = "SETTLED",
                          !.settled_at = t]
        ELSE IF paid_total > 0
        THEN [base EXCEPT !.settlement_status = "PARTIAL"]
        ELSE [base EXCEPT !.settlement_status = "UNSETTLED",
                          !.settled_at = NoTime]

\* Rental.refresh_financials of row r (with its row rn) against the payments
\* table pays at time t; yields the saved row.
refresh_financials(rn, r, pays, t) ==
    LET paid_total == aggregate(pays, r, "CHARGE", "PAID")
        refunded_total == aggregate(pays, r, "REFUND", "REFUNDED")
        order_total == calculate_order_total(rn)
        base == [rn EXCEPT !.amount_paid = paid_total,
                           !.amount_refunded = refunded_total]
    IN  IF rn.status = "COMPLETED" /\ order_total <= paid_total
        THEN [base EXCEPT !.settlement_status = "SETTLED",
                          !.settled_at = IF rn.settled_at = NoTime
                                         THEN t ELSE rn.settled_at]
        ELSE IF paid_total > 0
        THEN [base EXCEPT !.settlement_status = "PARTIAL"]
        ELSE [base EXCEPT !.settlement_status = "UNSETTLED",
                          !.settled_at = NoTime]

\* Decimal('0.10') has the two decimal places of an amount in cents, so a
\* product by it is exact with one digit below the cent: the Decimal results
\* of the calculators are held in tenths of a cent.
TenthsPerCent == 10

\* calculate_rental_amount with the discount cut to whole cents
calculate_rental_amount_cents(rate, level, start_date, end_date) ==
    LET days == (end_date - start_date) + 1
        base_amount == rate * days
    IN  IF level = "VIP"
        THEN (base_amount - (base_amount * 10) \div 100) * TenthsPerCent
        ELSE base_amount * TenthsPerCent

\* calculate_rental_amount on a daily rate in cents and a member level, in
\* Decimal arithmetic: the amount in tenths of a cent.
calculate_rental_amount_decimal(rate, level, start_date, end_date) ==
    LET days == (end_date - start_date) + 1
        base_amount == rate * days * TenthsPerCent
    IN  IF level = "VIP"
        THEN LET discount == (base_amount * 10) \div 100
             IN  base_amount - discount
        ELSE base_amount

\* calculate_rental_cost on a daily rate, a member level and the dates of a
\* rental: the cost details, amounts in tenths of a cent.
calculate_rental_cost_decimal(rate, level, start_date, end_date, actual_return_date) ==
    LET days == (end_date - start_date) + 1
        base_amount == rate * days * TenthsPerCent
        discount == IF level = "VIP" THEN (base_amount * 10) \div 100 ELSE 0
        overdue == actual_return_date # NoDate
                   /\ actual_return_date > end_date
        extra_days == IF overdue THEN actual_return_date - end_date ELSE 0
        extra_amount == rate * extra_days * TenthsPerCent
    IN  [base_amount |-> base_amount, discount |-> discount,
         extra_amount |-> extra_amount,
         total_amount |-> (base_amount - discount) + extra_amount,
         rental_days |-> days, extra_days |-> extra_days]

\* calculate_rental_cost(rental)
calculate_rental_cost(rn) ==
    calculate_rental_cost_decimal(daily_rate(rn.vehicle),
                                  member_level(rn.customer), rn.start_date,
                                  rn.end_date, rn.actual_return_date)

\* calculate_rental_amount (the rates of this registry make the 10% exact)
calculate_rental_amount(c, v, start_date, end_date) ==
    LET days == (end_date - start_date) + 1
        base_amount == daily_rate(v) * days
    IN  IF member_level(c) = "VIP"
        THEN base_amount - (base_amount * 10) \div 100
        ELSE base_amount

\* Rental.clean: None when the row is valid.
clean(rn) ==
    /\ rn.start_date <= rn.end_date
    /\ rn.actual_return_date # NoDate =>
          /\ rn.actual_return_date >= rn.start_date
          /\ rn.actual_return_date <= today

\* ------------------------------------------------------------------ state
\* The sweep's summary lists, empty for every other operation.
NoSummary == [activated |-> <<>>, activated_vehicles |-> <<>>,
              completed |-> <<>>, released |-> <<>>]

\* The response of operation op on rental r: the operation, the day it ran
\* and, for a sweep, its summary; nth = 2 and prior = the transitions of the
\* previous run when a sweep directly follows a sweep of the same day.
Response(op, r) ==
    [op |-> op, r |-> r, day |-> today, nth |-> 0, prior |-> 0] @@ NoSummary

\* The sweep process between two runs.
Idle == [pc |-> "idle", today |-> 0, vehicle_ids |-> {}, vehicle_id |-> 0,
         ongoing_rentals |-> 0, expired_rentals |-> <<>>,
         seen |-> [rentals |-> <<>>, payments |-> <<>>]]

Init ==
    /\ rentals = <<>>
    /\ vehicles = [v \in Vehicles |-> "AVAILABLE"]
    /\ payments = <<>>
    /\ now = 0
    /\ out = [Response("init", 0) EXCEPT !.day = 0]
    /\ sweep = Idle

\* The clock advances.
Tick ==
    /\ now < MaxNow
    /\ now' = now + 1
    /\ UNCHANGED <<rentals, vehicles, payments, out, sweep>>

\* A new Rental row as RentalForm binds it.
NewRental(c, v, s, e, cross) ==
    [customer |-> c, vehicle |-> v, start_date |-> s, end_date |-> e,
     actual_return_date |-> NoDate, total_amount |-> 0, deposit |-> 0,
     is_cross_location_return |-> cross, cross_location_fee |-> 0,
     status |-> "PENDING", notes |-> <<>>,
     settlement_status |-> "UNSETTLED", settled_at |-> NoTime,
     amount_paid |-> 0, amount_refunded |-> 0]

\* rental_create (POST with a valid form)
rental_create(c, v, s, e, cross) ==
    LET bound == NewRental(c, v, s, e, cross)
        rental == save([bound EXCEPT
                    !.total_amount = calculate_rental_amount(c, v, s, e)])
    IN  /\ clean(bound)
        /\ rentals' = Append(rentals, rental)
        /\ vehicles' = IF rental.status = "PENDING"
                       THEN [vehicles EXCEPT ![v] = "RENTED"]
                       ELSE vehicles
        /\ out' = Response("create", Len(rentals) + 1)
        /\ UNCHANGED <<payments, now, sweep>>

\* RentalForm(request.POST, instance=rental).is_valid() binds the posted
\* fields to the row and runs Rental.clean on it.
RentalForm_bind(rn, c, v, s, e, cross) ==
    [rn EXCEPT !.customer = c, !.vehicle = v, !.start_date = s,
               !.end_date = e, !.is_cross_location_return = cross]

\* rental_update (POST with a valid form)
rental_update(r, c, v, s, e, cross) ==
    LET bound == RentalForm_bind(rentals[r], c, v, s, e, cross)
        rental == save([bound EXCEPT
                    !.total_amount = calculate_rental_amount(c, v, s, e)])
    IN  /\ clean(bound)
        /\ rentals' = [rentals EXCEPT ![r] = rental]
        /\ vehicles' = IF rental.status = "PENDING"
                          /\ vehicles[rental.vehicle] = "AVAILABLE"
                       THEN [vehicles EXCEPT ![rental.vehicle] = "RENTED"]
                       ELSE vehicles
        /\ out' = Response("update", r)
        /\ UNCHANGED <<payments, now, sweep>>

\* The transitions of the lifecycle table that RentalStatusForm accepts.
RentalStatusForm_is_valid(rn, s) ==
    \/ rn.status = "PENDING" /\ s \in {"ONGOING", "COMPLETED", "CANCELLED"}
    \/ rn.status = "ONGOING" /\ s \in {"COMPLETED", "CANCELLED"}

\* rental_status_update (POST with a valid form).  form.is_valid() has
\* already bound the posted status to `rental` (the form's instance) when
\* line 232 reads old_status from it.
rental_status_update(r, s) ==
    LET rental == save([rentals[r] EXCEPT !.status = s])
        old_status == rental.status
        v == rental.vehicle
    IN  /\ RentalStatusForm_is_valid(rentals[r], s)
        /\ clean(rental)
        /\ rentals' = [rentals EXCEPT ![r] = rental]
        /\ vehicles' =
              IF old_status = "PENDING" /\ rental.status = "ONGOING"
              THEN [vehicles EXCEPT ![v] = "RENTED"]
              ELSE IF old_status \in {"PENDING", "ONGOING"}
                      /\ rental.status = "COMPLETED"
              THEN [vehicles EXCEPT ![v] = "AVAILABLE"]
              ELSE IF rental.status = "CANCELLED"
              THEN IF vehicles[v] = "RENTED"
                   THEN [vehicles EXCEPT ![v] = "AVAILABLE"]
                   ELSE vehicles
              ELSE vehicles
        /\ out' = Response("status_update", r)
        /\ UNCHANGED <<payments, now, sweep>>

\* ReturnForm(request.POST).is_valid(): the form is not given the rental,
\* so of the return-date rules it can apply only "not after today".
ReturnForm_is_valid(d) == d \in Days /\ d <= today

\* rental_return without the overdue charge of lines 283-287
rental_return_no_surcharge(r, actual_return_date) ==
    LET rn == rentals[r]
        rental == save([rn EXCEPT
            !.actual_return_date = actual_return_date,
            !.status = "COMPLETED"])
    IN  /\ ReturnForm_is_valid(actual_return_date)
        /\ rentals' = [rentals EXCEPT ![r] = rental]
        /\ vehicles' = [vehicles EXCEPT ![rental.vehicle] = "AVAILABLE"]
        /\ out' = Response("return", r)
        /\ UNCHANGED <<payments, now, sweep>>

\* rental_return (POST with a valid form)
rental_return(r, actual_return_date) ==
    LET rn == rentals[r]
        extra_days == actual_return_date - rn.end_date
        extra_cost == daily_rate(rn.vehicle) * extra_days
        rental == save([rn EXCEPT
            !.actual_return_date = actual_return_date,
            !.total_amount = IF actual_return_date > rn.end_date
                             THEN rn.total_amount + extra_cost
                             ELSE rn.total_amount,
            !.status = "COMPLETED"])
    IN  /\ ReturnForm_is_valid(actual_return_date)
        /\ rentals' = [rentals EXCEPT ![r] = rental]
        /\ vehicles' = [vehicles EXCEPT ![rental.vehicle] = "AVAILABLE"]
        /\ out' = Response("return", r)
        /\ UNCHANGED <<payments, now, sweep>>

\* The cancellation reasons a CancelForm carries (a required field).
Reasons == {"reason"}

\* rental_cancel without the vehicle update of lines 327-329
rental_cancel_keeps_vehicle(r, cancel_reason) ==
    LET rn == rentals[r]
        rental == save([rn EXCEPT !.status = "CANCELLED",
                                  !.notes = Append(rn.notes, cancel_reason)])
    IN  /\ cancel_reason \in Reasons
        /\ rentals' = [rentals EXCEPT ![r] = rental]
        /\ out' = Response("cancel", r)
        /\ UNCHANGED <<vehicles, payments, now, sweep>>

\* rental_cancel (POST with a valid form)
rental_cancel(r, cancel_reason) ==
    LET rn == rentals[r]
        rental == save([rn EXCEPT !.status = "CANCELLED",
                                  !.notes = Append(rn.notes, cancel_reason)])
        v == rental.vehicle
    IN  /\ cancel_reason \in Reasons
        /\ rentals' = [rentals EXCEPT ![r] = rental]
        /\ vehicles' = IF vehicles[v] = "RENTED"
                       THEN [vehicles EXCEPT ![v] = "AVAILABLE"]
                       ELSE vehicles
        /\ out' = Response("cancel", r)
        /\ UNCHANGED <<payments, now, sweep>>

\* A row of the payments table.
Payment(r, user, amount, tt, st, txid) ==
    [rental |-> r, user |-> user, amount |-> amount, transaction_type |-> tt,
     status |-> st, transaction_id |-> txid]

\* The payments the payment collaborator has written (the sweep writes the
\* others).
External(pays) == SelectSeq(pays, LAMBDA p : p.transaction_id.kind = "PAY")

\* The payment collaborator records a charge or a refund against rental r.
record_payment(r, user, amount, tt, st) ==
    /\ amount > 0
    /\ payments' = Append(payments,
          Payment(r, user, amount, tt, st,
                  [kind |-> "PAY", n |-> Len(payments) + 1]))
    /\ out' = Response("payment", r)
    /\ UNCHANGED <<rentals, vehicles, now, sweep>>

\* A caller runs Rental.refresh_financials() on rental r.
refresh(r) ==
    /\ rentals' = [rentals EXCEPT
          ![r] = refresh_financials(rentals[r], r, payments, now)]
    /\ out' = Response("refresh", r)
    /\ UNCHANGED <<vehicles, payments, now, sweep>>

\* ------------------------------------------------------------------ sweep
\* The ids of S as a queryset yields them: ordering = ['-created_at'].
RECURSIVE newest_first(_)
newest_first(S) ==
    IF S = {} THEN <<>>
    ELSE LET m == CHOOSE x \in S : \A y \in S : y <= x
         IN  <<m>> \o newest_first(S \ {m})

\* rental.payments.filter(transaction_type='CHARGE')
\*     .order_by('created_at').first()
first_charge(pays, r) ==
    SelectSeq(pays, LAMBDA p : p.rental = r /\ p.transaction_type = "CHARGE")

\* _settle_completed_rental refunding the whole deposit
settle_whole_deposit(rental, r, pays, t) ==
    LET deposit_amount == rental.deposit
        charges == aggregate(pays, r, "CHARGE", "PAID")
        refunded == aggregate(pays, r, "REFUND", "REFUNDED")
        refundable == deposit_amount - refunded
        payment_user == first_charge(pays, r)
        from_payment == IF payment_user # <<>>
                        THEN payment_user[1].user ELSE NoUser
        refund_user == IF from_payment = NoUser
                          /\ customer_user(rental.customer) # NoUser
                       THEN customer_user(rental.customer)
                       ELSE from_payment
        pays2 == IF deposit_amount > 0 /\ refundable > 0
                    /\ charges >= deposit_amount /\ refund_user # NoUser
                 THEN Append(pays,
                        Payment(r, refund_user, deposit_amount, "REFUND",
                                "REFUNDED", [kind |-> "REF", n |-> t]))
                 ELSE pays
    IN  [payments |-> pays2,
         rental |-> refresh_financials(rental, r, pays2, t)]

\* _settle_completed_rental without the test of line 192
settle_without_account(rental, r, pays, t) ==
    LET deposit_amount == rental.deposit
        charges == aggregate(pays, r, "CHARGE", "PAID")
        refunded == aggregate(pays, r, "REFUND", "REFUNDED")
        refundable == deposit_amount - refunded
        payment_user == first_charge(pays, r)
        from_payment == IF payment_user # <<>>
                        THEN payment_user[1].user ELSE NoUser
        refund_user == IF from_payment = NoUser
                          /\ customer_user(rental.customer) # NoUser
                       THEN customer_user(rental.customer)
                       ELSE from_payment
        pays2 == IF deposit_amount > 0 /\ refundable > 0
                    /\ charges >= deposit_amount
                 THEN Append(pays,
                        Payment(r, refund_user, refundable, "REFUND",
                                "REFUNDED", [kind |-> "REF", n |-> t]))
                 ELSE pays
    IN  [payments |-> pays2,
         rental |-> refresh_financials(rental, r, pays2, t)]

\* Command._settle_completed_rental: the payments table and the rental's row
\* after it.
_settle_completed_rental(rental, r, pays, t) ==
    LET deposit_amount == rental.deposit
        charges == aggregate(pays, r, "CHARGE", "PAID")
        refunded == aggregate(pays, r, "REFUND", "REFUNDED")
        refundable == deposit_amount - refunded
        payment_user == first_charge(pays, r)
        from_payment == IF payment_user # <<>>
                        THEN payment_user[1].user ELSE NoUser
        refund_user == IF from_payment = NoUser
                          /\ customer_user(rental.customer) # NoUser
                       THEN customer_user(rental.customer)
                       ELSE from_payment
        pays2 == IF deposit_amount > 0 /\ refundable > 0
                    /\ charges >= deposit_amount /\ refund_user # NoUser
                 THEN Append(pays,
                        Payment(r, refund_user, refundable, "REFUND",
                                "REFUNDED", [kind |-> "REF", n |-> t]))
                 ELSE pays
    IN  [payments |-> pays2,
         rental |-> refresh_financials(rental, r, pays2, t)]

\* The completion loop setting actual_return_date whether or not one is
\* recorded (without the test of line 116)
RECURSIVE complete_loop_overwrite(_, _, _, _)
complete_loop_overwrite(ids, rs, pays, t) ==
    IF ids = <<>> THEN [rentals |-> rs, payments |-> pays]
    ELSE LET r == Head(ids)
             rental == save([rs[r] EXCEPT
                 !.status = "COMPLETED",
                 !.actual_return_date = rs[r].end_date])
             settled == _settle_completed_rental(rental, r, pays, t)
         IN  complete_loop_overwrite(Tail(ids),
                                     [rs EXCEPT ![r] = settled.rental],
                                     settled.payments, t)

\* The loop of Command._complete_expired_rentals over the expired rentals.
RECURSIVE complete_loop(_, _, _, _)
complete_loop(ids, rs, pays, t) ==
    IF ids = <<>> THEN [rentals |-> rs, payments |-> pays]
    ELSE LET r == Head(ids)
             rental == save([rs[r] EXCEPT
                 !.status = "COMPLETED",
                 !.actual_return_date =
                     IF rs[r].actual_return_date = NoDate
                     THEN rs[r].end_date ELSE rs[r].actual_return_date])
             settled == _settle_completed_rental(rental, r, pays, t)
         IN  complete_loop(Tail(ids),
                           [rs EXCEPT ![r] = settled.rental],
                           settled.payments, t)

\* _activate_pending_rentals without the vehicle update of lines 78-81
activate_orders_only(rs, vs, day) ==
    LET pending_rentals == newest_first(
            {r \in DOMAIN rs : rs[r].status = "PENDING"
                               /\ rs[r].start_date <= day})
    IN  [rentals |-> [r \in DOMAIN rs |->
                        IF rs[r].status = "PENDING" /\ rs[r].start_date <= day
                        THEN save([rs[r] EXCEPT !.status = "ONGOING"])
                        ELSE rs[r]],
         vehicles |-> vs,
         activated |-> pending_rentals,
         activated_vehicles |-> <<>>]

\* Command._activate_pending_rentals.  Every rental of the queryset carries
\* its own copy of its vehicle's row, read when the queryset is evaluated.
_activate_pending_rentals(rs, vs, day) ==
    LET pending_rentals == newest_first(
            {r \in DOMAIN rs : rs[r].status = "PENDING"
                               /\ rs[r].start_date <= day})
        activated_vehicles == SelectSeq(pending_rentals,
            LAMBDA r : vs[rs[r].vehicle] = "AVAILABLE")
    IN  [rentals |-> [r \in DOMAIN rs |->
                        IF rs[r].status = "PENDING" /\ rs[r].start_date <= day
                        THEN save([rs[r] EXCEPT !.status = "ONGOING"])
                        ELSE rs[r]],
         vehicles |-> [v \in DOMAIN vs |->
                        IF \E i \in DOMAIN activated_vehicles :
                              rs[activated_vehicles[i]].vehicle = v
                        THEN "RENTED" ELSE vs[v]],
         activated |-> pending_rentals,
         activated_vehicles |->
             [i \in DOMAIN activated_vehicles |->
                 rs[activated_vehicles[i]].vehicle]]

\* Command._complete_expired_rentals
_complete_expired_rentals(rs, vs, pays, day, t) ==
    LET expired_rentals == newest_first(
            {r \in DOMAIN rs : rs[r].status = "ONGOING"
                               /\ rs[r].end_date < day})
        done == complete_loop(expired_rentals, rs, pays, t)
        vehicle_ids == {rs[expired_rentals[i]].vehicle :
                            i \in DOMAIN expired_rentals}
        ongoing_rentals(v) == Cardinality(
            {r \in DOMAIN rs : done.rentals[r].vehicle = v
                               /\ done.rentals[r].status = "ONGOING"})
        released == {v \in vehicle_ids :
                        ongoing_rentals(v) = 0 /\ vs[v] = "RENTED"}
    IN  [rentals |-> done.rentals,
         payments |-> done.payments,
         vehicles |-> [v \in DOMAIN vs |->
                         IF v \in released THEN "AVAILABLE" ELSE vs[v]],
         completed |-> expired_rentals,
         released |-> newest_first(released)]

\* Command.handle running the completion phase before the activation phase
handle_complete_first ==
    LET day == today
        p2 == _complete_expired_rentals(rentals, vehicles, payments, day, now)
        p1 == _activate_pending_rentals(p2.rentals, p2.vehicles, day)
        again == out.op = "sweep" /\ out.day = day
    IN  /\ rentals' = p1.rentals
        /\ vehicles' = p1.vehicles
        /\ payments' = p2.payments
        /\ out' = [op |-> "sweep", r |-> 0, day |-> day,
                   nth |-> IF again THEN 2 ELSE 1,
                   prior |-> IF again
                             THEN Len(out.activated) + Len(out.completed)
                             ELSE 0,
                   activated |-> p1.activated,
                   activated_vehicles |-> p1.activated_vehicles,
                   completed |-> p2.completed,
                   released |-> p2.released]
        /\ UNCHANGED <<now, sweep>>

\* Command.handle: one run of the sweep.
handle ==
    LET day == today
        p1 == _activate_pending_rentals(rentals, vehicles, day)
        p2 == _complete_expired_rentals(p1.rentals, p1.vehicles, payments,
                                       day, now)
        again == out.op = "sweep" /\ out.day = day
    IN  /\ rentals' = p2.rentals
        /\ vehicles' = p2.vehicles
        /\ payments' = p2.payments
        /\ out' = [op |-> "sweep", r |-> 0, day |-> day,
                   nth |-> IF again THEN 2 ELSE 1,
                   prior |-> IF again
                             THEN Len(out.activated) + Len(out.completed)
                             ELSE 0,
                   activated |-> p1.activated,
                   activated_vehicles |-> p1.activated_vehicles,
                   completed |-> p2.completed,
                   released |-> p2.released]
        /\ UNCHANGED <<now, sweep>>

\* ------------------------------------------- the sweep, phase by phase
\* The sweep's process starts a run: handle reads today (line 17) and
\* _activate_pending_rentals commits its transaction.
activation_phase ==
    LET day == today
        p1 == _activate_pending_rentals(rentals, vehicles, day)
    IN  /\ sweep.pc = "idle"
        /\ rentals' = p1.rentals
        /\ vehicles' = p1.vehicles
        /\ sweep' = [Idle EXCEPT !.pc = "complete", !.today = day]
        /\ out' = [Response("activate", 0) EXCEPT
                      !.activated = p1.activated,
                      !.activated_vehicles = p1.activated_vehicles]
        /\ UNCHANGED <<payments, now>>

\* The transaction of _complete_expired_rentals (lines 95-128) commits: the
\* expired rentals are completed and settled, their vehicles collected.
completion_phase ==
    LET expired_rentals == newest_first(
            {r \in RentalIds : rentals[r].status = "ONGOING"
                               /\ rentals[r].end_date < sweep.today})
        done == complete_loop(expired_rentals, rentals, payments, now)
        vehicle_ids == {rentals[expired_rentals[i]].vehicle :
                            i \in DOMAIN expired_rentals}
    IN  /\ sweep.pc = "complete"
        /\ rentals' = done.rentals
        /\ payments' = done.payments
        /\ sweep' = IF vehicle_ids = {} THEN Idle
                    ELSE [sweep EXCEPT !.pc = "release",
                                       !.vehicle_ids = vehicle_ids]
        /\ out' = [Response("complete", 0) EXCEPT
                      !.completed = expired_rentals]
        /\ UNCHANGED <<vehicles, now>>

\* The sweep's process enters the transaction of _complete_expired_rentals
\* and evaluates expired_rentals (lines 113-114): it holds the rows it has
\* loaded, and the tables as they stood at this first read.
completion_begin ==
    LET expired_rentals == newest_first(
            {r \in RentalIds : rentals[r].status = "ONGOING"
                               /\ rentals[r].end_date < sweep.today})
    IN  /\ sweep.pc = "complete"
        /\ sweep' = IF expired_rentals = <<>> THEN Idle
                    ELSE [sweep EXCEPT
                            !.pc = "completing",
                            !.expired_rentals = expired_rentals,
                            !.seen = [rentals |-> rentals,
                                      payments |-> payments]]
        /\ UNCHANGED <<rentals, vehicles, payments, now, out>>

\* The isolation levels of the databases Django runs on: a query inside the
\* transaction reads what is committed when it runs, or what was committed
\* at the transaction's first read.
Isolation == {"READ COMMITTED", "REPEATABLE READ"}

\* The loop of lines 114-128 runs over the rows loaded by completion_begin
\* and the transaction commits.  rental.save() writes the loaded row; the
\* aggregates of _settle_completed_rental read the payments the isolation
\* level shows them.
completion_commit(isolation) ==
    LET ids == sweep.expired_rentals
        loaded == [r \in RentalIds |->
                     IF \E i \in DOMAIN ids : ids[i] = r
                     THEN sweep.seen.rentals[r] ELSE rentals[r]]
        read == IF isolation = "REPEATABLE READ"
                THEN sweep.seen.payments ELSE payments
        done == complete_loop(ids, loaded, read, now)
        created == SubSeq(done.payments, Len(read) + 1, Len(done.payments))
    IN  /\ sweep.pc = "completing"
        /\ isolation \in Isolation
        /\ rentals' = done.rentals
        /\ payments' = payments \o created
        /\ sweep' = [sweep EXCEPT
                        !.pc = "release",
                        !.vehicle_ids = {loaded[ids[i]].vehicle :
                                            i \in DOMAIN ids},
                        !.expired_rentals = <<>>,
                        !.seen = Idle.seen]
        /\ out' = [Response("complete", 0) EXCEPT !.completed = ids]
        /\ UNCHANGED <<vehicles, now>>

\* The release loop takes the next vehicle_id and counts the ONGOING rentals
\* of the vehicle (lines 136-141).
release_count(vehicle_id) ==
    /\ sweep.pc = "release"
    /\ sweep.vehicle_id = 0
    /\ vehicle_id \in sweep.vehicle_ids
    /\ sweep' = [sweep EXCEPT
          !.vehicle_id = vehicle_id,
          !.vehicle_ids = @ \ {vehicle_id},
          !.ongoing_rentals = Cardinality(
              {r \in RentalIds : rentals[r].vehicle = vehicle_id
                                 /\ rentals[r].status = "ONGOING"})]
    /\ UNCHANGED <<rentals, vehicles, payments, now, out>>

\* The release loop acts on the count it took (lines 143-159): with no
\* ONGOING rental counted it reads the vehicle and saves it AVAILABLE when it
\* is RENTED.
release_save ==
    LET v == sweep.vehicle_id
        release == sweep.ongoing_rentals = 0 /\ vehicles[v] = "RENTED"
    IN  /\ sweep.pc = "release"
        /\ v # 0
        /\ vehicles' = IF release THEN [vehicles EXCEPT ![v] = "AVAILABLE"]
                       ELSE vehicles
        /\ sweep' = IF sweep.vehicle_ids = {} THEN Idle
                    ELSE [sweep EXCEPT !.vehicle_id = 0,
                                       !.ongoing_rentals = 0]
        /\ out' = [Response("release", v) EXCEPT
                      !.released = IF release THEN <<v>> ELSE <<>>]
        /\ UNCHANGED <<rentals, payments, now>>

\* Command.handle when an exception is raised inside a loop: while the
\* activation loop (phase "activate") or the completion loop ("complete")
\* processes rental at, or while the release loop ("release") processes
\* vehicle at.  No loop catches it: transaction.atomic() rolls back the
\* writes of the loop it leaves, what was committed before stays, and the
\* exception leaves handle before the summary.
handle_failing(phase, at) ==
    LET day == today
        p1 == _activate_pending_rentals(rentals, vehicles, day)
        p2 == _complete_expired_rentals(p1.rentals, p1.vehicles, payments,
                                       day, now)
        vehicle_ids == {p1.rentals[p2.completed[i]].vehicle :
                            i \in DOMAIN p2.completed}
        InSeq(x, q) == \E i \in DOMAIN q : q[i] = x
    IN  /\ \/ /\ phase = "activate"
              /\ InSeq(at, p1.activated)
              /\ UNCHANGED <<rentals, vehicles, payments>>
           \/ /\ phase = "complete"
              /\ InSeq(at, p2.completed)
              /\ rentals' = p1.rentals
              /\ vehicles' = p1.vehicles
              /\ UNCHANGED payments
           \/ /\ phase = "release"
              /\ at \in vehicle_ids
              /\ rentals' = p2.rentals
              /\ payments' = p2.payments
              /\ \E seen \in SUBSET (vehicle_ids \ {at}) :
                    vehicles' = [v \in Vehicles |->
                        IF v \in seen THEN p2.vehicles[v]
                        ELSE p1.vehicles[v]]
        /\ out' = Response(phase \o "_failed", at)
        /\ UNCHANGED <<now, sweep>>

\* ----------------------------------------------------------------- inputs
\* What a RentalForm is posted with: customer, vehicle, dates and the
\* cross-location flag.
AllBookings ==
    {b \in [c : Customers, v : Vehicles, s : Days, e : Days, cross : BOOLEAN] :
        b.s <= b.e}

\* Spec: one-day bookings of vehicle 1 starting on day 1
Bookings == {b \in AllBookings : b.v = 1 /\ b.e = 1 /\ b.cross = (b.c = 2)}

\* SpecLedger: every booking of vehicle 1
LedgerBookings == {b \in AllBookings : b.v = 1}

\* What the payment collaborator records.  The deposit of vehicle 1 is
\* 100000 and an order's total lies between 109000 and 135000.
AllPaymentKinds ==
    {[user |-> NoUser, amount |-> 100000, tt |-> "CHARGE", st |-> "PAID"],
     [user |-> 1, amount |-> 50000, tt |-> "CHARGE", st |-> "PAID"],
     [user |-> 1, amount |-> 150000, tt |-> "CHARGE", st |-> "PAID"],
     [user |-> 1, amount |-> 50000, tt |-> "CHARGE", st |-> "PENDING"],
     [user |-> 1, amount |-> 50000, tt |-> "REFUND", st |-> "REFUNDED"],
     [user |-> 1, amount |-> 100000, tt |-> "REFUND", st |-> "REFUNDED"]}

PaymentKinds == {k \in AllPaymentKinds : k.amount = 150000}

LedgerPaymentKinds == {k \in AllPaymentKinds : k.amount # 150000}

\* The operations of the program over bookings B and payment kinds K, with
\* at most maxR rentals and maxP recorded payments.
NextOver(B, K, maxR, maxP) ==
    \/ Tick
    \/ \E b \in B :
          /\ Len(rentals) < maxR
          /\ rental_create(b.c, b.v, b.s, b.e, b.cross)
    \/ \E r \in RentalIds, b \in B :
          rental_update(r, b.c, b.v, b.s, b.e, b.cross)
    \/ \E r \in RentalIds, s \in RENTAL_STATUS_CHOICES :
          rental_status_update(r, s)
    \/ \E r \in RentalIds, d \in Days :
          /\ rental_return(r, d)
          /\ rentals'[r].total_amount
                <= daily_rate(rentals[r].vehicle) * MaxBilledDays
    \/ \E r \in RentalIds, reason \in Reasons :
          /\ Len(rentals[r].notes) < MaxNotes
          /\ rental_cancel(r, reason)
    \/ \E r \in RentalIds, k \in K :
          /\ Len(External(payments)) < maxP
          /\ record_payment(r, k.user, k.amount, k.tt, k.st)
    \/ \E r \in RentalIds : refresh(r)
    \/ handle

Next == NextOver(Bookings, PaymentKinds, MaxRentals, MaxPayments)

Spec == Init /\ [][Next]_vars

NextLedger ==
    NextOver(LedgerBookings, LedgerPaymentKinds, LedgerRentals, LedgerPayments)

SpecLedger == Init /\ [][NextLedger]_vars

\* Bookings paid in full and swept: two orders, a payment for each.
NextBatch ==
    \/ Tick
    \/ \E b \in Bookings :
          /\ Len(rentals) < MaxRentals
          /\ rental_create(b.c, b.v, b.s, b.e, b.cross)
    \/ \E r \in RentalIds, k \in PaymentKinds :
          /\ Len(External(payments)) < BatchPayments
          /\ record_payment(r, k.user, k.amount, k.tt, k.st)
    \/ handle

SpecBatch == Init /\ [][NextBatch]_vars
\* The sweep's process running phase by phase beside the views.
NextSweep ==
    \/ Tick
    \/ \E b \in Bookings :
          /\ Len(rentals) < SweepRentals
          /\ rental_create(b.c, b.v, b.s, b.e, b.cross)
    \/ \E r \in RentalIds, s \in RENTAL_STATUS_CHOICES :
          rental_status_update(r, s)
    \/ \E r \in RentalIds, reason \in Reasons :
          /\ Len(rentals[r].notes) < MaxNotes
          /\ rental_cancel(r, reason)
    \/ activation_phase
    \/ completion_phase
    \/ \E v \in Vehicles : release_count(v)
    \/ release_save

SpecSweep == Init /\ [][NextSweep]_vars

\* Sweeps that run to their end and sweeps that fail on the way.
NextFault ==
    \/ Tick
    \/ \E b \in Bookings :
          /\ Len(rentals) < MaxRentals
          /\ rental_create(b.c, b.v, b.s, b.e, b.cross)
    \/ \E r \in RentalIds, reason \in Reasons :
          /\ Len(rentals[r].notes) < MaxNotes
          /\ rental_cancel(r, reason)
    \/ handle
    \/ \E phase \in {"activate", "complete"}, r \in RentalIds :
          handle_failing(phase, r)
    \/ \E v \in Vehicles : handle_failing("release", v)

SpecFault == Init /\ [][NextFault]_vars
\* What a calculator is asked with: a daily rate in cents, a member level
\* and the two dates of a booking.
Rates == {9999, 10000, 12345, 20000}
MEMBER_LEVEL_CHOICES == {"NORMAL", "VIP"}
PriceDays == 1..MaxPriceDay

\* A calculator is about to be called: the arguments of the call.
InitPricing ==
    /\ rentals = <<>>
    /\ vehicles = [v \in Vehicles |-> "AVAILABLE"]
    /\ payments = <<>>
    /\ now = 0
    /\ sweep = Idle
    /\ \E rate \in Rates, level \in MEMBER_LEVEL_CHOICES,
          s \in PriceDays, e \in PriceDays :
          /\ s <= e
          /\ out = [op |-> "call", rate |-> rate, member_level |-> level,
                    start_date |-> s, end_date |-> e,
                    total_amount |-> 0, cost_details |-> <<>>]

\* The calculators answer the call.
quote ==
    /\ out.op = "call"
    /\ out' = [out EXCEPT
          !.op = "quote",
          !.total_amount =
              calculate_rental_amount_decimal(out.rate, out.member_level,
                                              out.start_date, out.end_date),
          !.cost_details =
              calculate_rental_cost_decimal(out.rate, out.member_level,
                                            out.start_date, out.end_date,
                                            NoDate)]
    /\ UNCHANGED <<rentals, vehicles, payments, now, sweep>>

SpecPricing == InitPricing /\ [][quote]_vars

\* Two runs of the sweep side by side: one phase by phase, its completion
\* transaction open while the other runs from start to end.
NextRace ==
    \/ Tick
    \/ \E b \in Bookings :
          /\ Len(rentals) < MaxRentals
          /\ rental_create(b.c, b.v, b.s, b.e, b.cross)
    \/ \E r \in RentalIds, k \in PaymentKinds :
          /\ Len(External(payments)) < BatchPayments
          /\ record_payment(r, k.user, k.amount, k.tt, k.st)
    \/ handle
    \/ activation_phase
    \/ completion_begin
    \/ \E isolation \in Isolation : completion_commit(isolation)
    \/ \E v \in Vehicles : release_count(v)
    \/ release_save

SpecRace == Init /\ [][NextRace]_vars

\* The sweep run again and again while the staff's operations come and go:
\* same-day bookings of customer 1 on either vehicle.
LiveBookings ==
    {b \in AllBookings : b.c = 1 /\ b.s = 1 /\ b.e = 1 /\ ~b.cross}

NextLive ==
    \/ Tick
    \/ \E b \in LiveBookings :
          /\ Len(rentals) < MaxRentals
          /\ rental_create(b.c, b.v, b.s, b.e, b.cross)
    \/ \E r \in RentalIds, b \in LiveBookings :
          rental_update(r, b.c, b.v, b.s, b.e, b.cross)
    \/ \E r \in RentalIds, s \in RENTAL_STATUS_CHOICES :
          rental_status_update(r, s)
    \/ handle

\* A run of the sweep would leave every table and its summary as they are:
\* Command.handle has no guard and one outcome, so this is the negation of
\* ENABLED <<handle>>_vars.
SweepIdle ==
    LET day == today
        p1 == _activate_pending_rentals(rentals, vehicles, day)
        p2 == _complete_expired_rentals(p1.rentals, p1.vehicles, payments,
                                       day, now)
        again == out.op = "sweep" /\ out.day = day
    IN  /\ rentals = p2.rentals
        /\ vehicles = p2.vehicles
        /\ payments = p2.payments
        /\ out = [op |-> "sweep", r |-> 0, day |-> day,
                  nth |-> IF again THEN 2 ELSE 1,
                  prior |-> IF again
                            THEN Len(out.activated) + Len(out.completed)
                            ELSE 0,
                  activated |-> p1.activated,
                  activated_vehicles |-> p1.activated_vehicles,
                  completed |-> p2.completed,
                  released |-> p2.released]

\* The scheduler keeps running the sweep: weak fairness of handle, written
\* out with SweepIdle for ~ENABLED <<handle>>_vars.
SweepKeepsRunning == []<>SweepIdle \/ []<><<handle>>_vars

\* The scheduler keeps running the sweep and the clock keeps going; no
\* operation of the staff has to happen.
SpecLive ==
    Init /\ [][NextLive]_vars /\ WF_vars(Tick) /\ SweepKeepsRunning

\* ----------------------------------------------------------------- claims
\* What the ledger holds for rental r, summed record by record.
RECURSIVE LedgerSum(_, _, _, _, _)
LedgerSum(pays, i, r, tt, st) ==
    IF i = 0 THEN 0
    ELSE LedgerSum(pays, i - 1, r, tt, st)
         + (IF pays[i].rental = r /\ pays[i].transaction_type = tt
               /\ pays[i].status = st
            THEN pays[i].amount ELSE 0)

PaidCharges(pays, r) == LedgerSum(pays, Len(pays), r, "CHARGE", "PAID")
Refunds(pays, r) == LedgerSum(pays, Len(pays), r, "REFUND", "REFUNDED")

\* The order total of section 4.1: subtotal + deposit + fee when flagged.
OrderTotal(rn) ==
    rn.total_amount + rn.deposit
    + (IF rn.is_cross_location_return THEN rn.cross_location_fee ELSE 0)

\* The settlement status section 4.4 derives from a paid amount.
Settlement(rn, paid) ==
    IF rn.status = "COMPLETED" /\ OrderTotal(rn) <= paid THEN "SETTLED"
    ELSE IF paid > 0 THEN "PARTIAL"
    ELSE "UNSETTLED"

Terminal == {"COMPLETED", "CANCELLED"}

\* C1: once an order's status is completed or cancelled, no operation
\* changes that status again.
C1_TerminalStatusKept ==
    [][\A r \in RentalIds :
          rentals[r].status \in Terminal
             => rentals'[r].status = rentals[r].status]_vars

\* Rental a is completed by this step.
Completes(a) ==
    /\ a \in RentalIds
    /\ rentals[a].status # "COMPLETED"
    /\ rentals'[a].status = "COMPLETED"

\* C2: completing order a never sets its vehicle to available while another
\* order on the same vehicle is still active: a rented vehicle stays rented.
C2_NoReleaseWhileActive ==
    [][\A a \in RentalIds :
          (/\ Completes(a)
           /\ vehicles[rentals'[a].vehicle] = "RENTED"
           /\ \E b \in RentalIds \ {a} :
                 /\ rentals'[b].vehicle = rentals'[a].vehicle
                 /\ rentals'[b].status = "ONGOING")
             => vehicles'[rentals'[a].vehicle] = "RENTED"]_vars

\* Row rn of rental r carries the settlement fields the ledger pays gives.
Refreshed(rn, r, pays) ==
    /\ rn.amount_paid = PaidCharges(pays, r)
    /\ rn.amount_refunded = Refunds(pays, r)
    /\ rn.settlement_status = Settlement(rn, PaidCharges(pays, r))

\* C3: every step that changes an order's status to completed leaves its
\* amount_paid, amount_refunded and settlement status recomputed from the
\* payment records.
C3_CompletionRefreshes ==
    [][\A r \in RentalIds :
          Completes(r) => Refreshed(rentals'[r], r, payments')]_vars

LifecycleOps ==
    {"create", "update", "status_update", "return", "cancel", "sweep"}

\* C4: after a lifecycle operation commits, every order's stored settlement
\* status is the one its stored amount_paid and order total give.
C4_SettlementConsistent ==
    out.op \in LifecycleOps =>
        \A r \in RentalIds :
            rentals[r].settlement_status
                = Settlement(rentals[r], rentals[r].amount_paid)

\* C5: refresh_financials sets amount_paid to the paid charges, amount_refunded
\* to the refunded refunds and the settlement status to the one they give;
\* an unsettled order has no settled_at, a settled one has, and an order that
\* is booked, active or cancelled is never settled.
C5_RefreshComputesSettlement ==
    out.op = "refresh" =>
        LET rn == rentals[out.r] IN
        /\ Refreshed(rn, out.r, payments)
        /\ rn.settlement_status = "UNSETTLED" => rn.settled_at = NoTime
        /\ rn.settlement_status = "SETTLED" => rn.settled_at # NoTime
        /\ rn.status # "COMPLETED" => rn.settlement_status # "SETTLED"

\* C5 witness: a refresh has settled a completed order.
C5_Witness ==
    /\ out.op = "refresh"
    /\ rentals[out.r].status = "COMPLETED"
    /\ rentals[out.r].settlement_status = "SETTLED"
    /\ rentals[out.r].amount_paid >= OrderTotal(rentals[out.r])

\* C6: a refresh of a completed order whose paid charges cover the order
\* total leaves it settled with settled_at set: the first such refresh stamps
\* the current time, and a refresh of an order already settled keeps the
\* stamp it finds.
C6_RefreshIdempotent ==
    [][out'.op = "refresh" =>
          LET r == out'.r
              rn == rentals[r]
              rn2 == rentals'[r]
          IN  (rn2.status = "COMPLETED"
                  /\ PaidCharges(payments', r) >= OrderTotal(rn2))
              => /\ rn2.settlement_status = "SETTLED"
                 /\ rn2.settled_at # NoTime
                 /\ rn.settled_at = NoTime => rn2.settled_at = now'
                 /\ (rn.settlement_status = "SETTLED"
                        /\ rn.settled_at # NoTime)
                    => rn2.settled_at = rn.settled_at]_vars

\* C6 witness: a refresh ran on an order settled on an earlier day.
C6_Witness ==
    /\ out.op = "refresh"
    /\ rentals[out.r].status = "COMPLETED"
    /\ rentals[out.r].settlement_status = "SETTLED"
    /\ rentals[out.r].settled_at # NoTime
    /\ (rentals[out.r].settled_at \div TicksPerDay) + 1 < out.day

\* The records the step added to the payments table for rental r.
NewRecords(r) ==
    SelectSeq(SubSeq(payments', Len(payments) + 1, Len(payments')),
              LAMBDA p : p.rental = r)

\* The first charge record of rental r, whatever its status.
FirstCharge(pays, r) ==
    LET idx == {i \in DOMAIN pays : pays[i].rental = r
                                    /\ pays[i].transaction_type = "CHARGE"}
    IN  IF idx = {} THEN <<>>
        ELSE <<pays[CHOOSE i \in idx : \A j \in idx : i <= j]>>

\* The account a refund of rental row rn is attributed to, if any.
RefundAccount(pays, r, rn) ==
    LET fc == FirstCharge(pays, r)
    IN  IF fc # <<>> /\ fc[1].user # NoUser THEN fc[1].user
        ELSE customer_user(rn.customer)

\* The auto-refund conditions of section 4.4 for rental row rn.
RefundDue(pays, r, rn) ==
    /\ rn.deposit > 0
    /\ rn.deposit - Refunds(pays, r) > 0
    /\ PaidCharges(pays, r) >= rn.deposit

\* The step is a sweep that completes rental r.
SweepCompletes(r) == out'.op = "sweep" /\ Completes(r)

\* C7: a sweep that completes an order adds at most one record for it, and
\* adds one exactly when the refund is due and an account exists; the record
\* is a refunded refund of deposit - (refunds before the completion), and
\* the records already there are kept.
C7_OneRefundPerCompletion ==
    [][\A r \in RentalIds :
          SweepCompletes(r) =>
              LET new == NewRecords(r)
                  rn == rentals[r]
                  acct == RefundAccount(payments, r, rn)
              IN  /\ Len(new) <= 1
                  /\ Len(new) = 1
                        <=> (RefundDue(payments, r, rn) /\ acct # NoUser)
                  /\ Len(new) = 1 =>
                        /\ new[1].amount = rn.deposit - Refunds(payments, r)
                        /\ new[1].transaction_type = "REFUND"
                        /\ new[1].status = "REFUNDED"
                        /\ new[1].user = acct
                  /\ SubSeq(payments', 1, Len(payments)) = payments]_vars

\* C7 witness: the sweep completed an order that had been refunded in part
\* and refunded the rest of its deposit.
C7_Witness ==
    /\ out.op = "sweep"
    /\ \E i \in DOMAIN out.completed :
          LET r == out.completed[i]
              last == payments[Len(payments)]
          IN  /\ Len(payments) >= 2
              /\ last.rental = r
              /\ last.transaction_id.kind = "REF"
              /\ 0 < last.amount
              /\ last.amount < rentals[r].deposit

\* C9: when the refund is due but neither the first charge nor the customer
\* has an account, the sweep still completes the order and refreshes its
\* settlement fields, and the payments table is unchanged.
C9_NoAccountNoRefund ==
    [][\A r \in RentalIds :
          (/\ SweepCompletes(r)
           /\ RefundDue(payments, r, rentals[r])
           /\ RefundAccount(payments, r, rentals[r]) = NoUser)
          => /\ rentals'[r].status = "COMPLETED"
             /\ Refreshed(rentals'[r], r, payments')
             /\ NewRecords(r) = <<>>
             /\ SubSeq(payments', 1, Len(payments)) = payments]_vars

\* C9 witness: the sweep completed an order whose refund is due and that has
\* no account to refund to.
C9_Witness ==
    /\ out.op = "sweep"
    /\ \E i \in DOMAIN out.completed :
          LET r == out.completed[i]
          IN  /\ RefundDue(payments, r, rentals[r])
              /\ RefundAccount(payments, r, rentals[r]) = NoUser
              /\ rentals[r].status = "COMPLETED"

\* C8: the transaction reference of a refund the sweep created differs from
\* the reference of every other payment record.
C8_RefundReferencesUnique ==
    \A i, j \in DOMAIN payments :
        (i # j /\ payments[i].transaction_id.kind = "REF")
            => payments[i].transaction_id # payments[j].transaction_id

\* C10: a sweep that directly follows a sweep of the same day reports nothing
\* activated, rented, completed or released, and changes no order, vehicle or
\* payment record.
C10_SweepIdempotent ==
    [][(out.op = "sweep" /\ out.day = today /\ out'.op = "sweep"
           /\ now' = now)
          => /\ out'.activated = <<>>
             /\ out'.activated_vehicles = <<>>
             /\ out'.completed = <<>>
             /\ out'.released = <<>>
             /\ rentals' = rentals
             /\ vehicles' = vehicles
             /\ payments' = payments]_vars

\* C10 witness: a second sweep ran right after one that moved orders on.
C10_Witness ==
    /\ out.op = "sweep"
    /\ out.nth = 2
    /\ out.prior > 0
    /\ out.completed = <<>>
    /\ out.activated = <<>>

\* The step commits the activation phase of the sweep's process.
ActivationCommits == sweep.pc = "idle" /\ sweep'.pc = "complete"

\* Order r is booked and has started.
DueToStart(r) ==
    rentals[r].status = "PENDING" /\ rentals[r].start_date <= today

\* C11: when the activation phase commits, every order that was booked with
\* start_date <= today is active, no other order's status changed, every
\* vehicle of an activated order that was available is rented and every
\* other vehicle's status is as before.
C11_ActivationPhase ==
    [][ActivationCommits =>
          /\ \A r \in RentalIds :
                rentals'[r].status =
                    IF DueToStart(r) THEN "ONGOING" ELSE rentals[r].status
          /\ \A v \in Vehicles :
                vehicles'[v] =
                    IF vehicles[v] = "AVAILABLE"
                       /\ \E r \in RentalIds :
                             DueToStart(r) /\ rentals[r].vehicle = v
                    THEN "RENTED" ELSE vehicles[v]
          /\ Len(rentals') = Len(rentals)]_vars

\* C11 witness: the activation phase activated an order and rented its
\* vehicle, which had been available.
C11_Witness ==
    /\ out.op = "activate"
    /\ sweep.pc = "complete"
    /\ \E i \in DOMAIN out.activated :
          /\ rentals[out.activated[i]].status = "ONGOING"
          /\ out.activated_vehicles
                = <<rentals[out.activated[i]].vehicle>>
          /\ vehicles[rentals[out.activated[i]].vehicle] = "RENTED"

\* Order r is active and past its end date when the completion phase of a
\* sweep that starts now looks for it.
DueToEnd(r) ==
    /\ rentals[r].status = "ONGOING" \/ DueToStart(r)
    /\ rentals[r].end_date < today

\* What the completion loop makes of row r when the row holds the recorded
\* actual return date d.
CompletedWithDate(r, d) ==
    complete_loop(<<r>>,
                  [rentals EXCEPT ![r].status = "ONGOING",
                                  ![r].actual_return_date = d],
                  payments, now).rentals[r]

\* C12: a sweep completes every active order with end_date < today, sets
\* its actual_return_date to end_date when none was recorded, keeps a
\* recorded one, and leaves its total_amount as it was.
C12_CompletionPhase ==
    [][(out'.op = "sweep" /\ now' = now) =>
          \A r \in RentalIds :
              DueToEnd(r) =>
                  /\ rentals'[r].status = "COMPLETED"
                  /\ rentals'[r].actual_return_date =
                        IF rentals[r].actual_return_date = NoDate
                        THEN rentals[r].end_date
                        ELSE rentals[r].actual_return_date
                  /\ rentals'[r].total_amount = rentals[r].total_amount
                  /\ \A d \in Days :
                        /\ CompletedWithDate(r, d).status = "COMPLETED"
                        /\ CompletedWithDate(r, d).actual_return_date = d
                        /\ CompletedWithDate(r, d).total_amount
                              = rentals[r].total_amount]_vars

\* C12 witness: a sweep completed an order that had no actual return date;
\* the order carries its end date and the total it was created with.
C12_Witness ==
    /\ out.op = "sweep"
    /\ \E i \in DOMAIN out.completed :
          LET rn == rentals[out.completed[i]]
          IN  /\ rn.status = "COMPLETED"
              /\ rn.actual_return_date = rn.end_date
              /\ rn.end_date < out.day
              /\ rn.total_amount
                    = calculate_rental_amount(rn.customer, rn.vehicle,
                                              rn.start_date, rn.end_date)

\* The responses of a run of the sweep: its summary, or the failure that
\* ended it.
SweepRuns ==
    {"sweep", "activate_failed", "complete_failed", "release_failed"}

\* C13: whatever point a run of the sweep reaches, the committed state never
\* shows an order the run activated on an available vehicle without the
\* vehicle rented, nor an order the run completed, with no active order left
\* on its vehicle, without the vehicle released.
C13_PhasesAllOrNothing ==
    [][(out'.op \in SweepRuns /\ now' = now) =>
          \A r \in RentalIds :
              LET v == rentals[r].vehicle
              IN  /\ (/\ rentals[r].status = "PENDING"
                      /\ rentals'[r].status = "ONGOING"
                      /\ vehicles[v] = "AVAILABLE")
                     => vehicles'[v] = "RENTED"
                  /\ (/\ Completes(r)
                      /\ ~\E b \in RentalIds :
                            /\ rentals'[b].vehicle = v
                            /\ rentals'[b].status = "ONGOING")
                     => vehicles'[v] = "AVAILABLE"]_vars

\* C14: the release step of a completion sets a vehicle available only when
\* no active order exists on the vehicle at that moment, whatever committed
\* between the step's count of the active orders and its write.
C14_ReleaseSerialized ==
    [][(/\ sweep.pc = "release"
        /\ sweep.vehicle_id # 0
        /\ out'.op = "release"
        /\ vehicles[sweep.vehicle_id] = "RENTED"
        /\ vehicles'[sweep.vehicle_id] = "AVAILABLE")
       => ~\E r \in RentalIds :
             /\ rentals'[r].vehicle = sweep.vehicle_id
             /\ rentals'[r].status = "ONGOING"]_vars

\* The step is a run of the sweep in which processing order bad fails.
FailsOn(bad) ==
    /\ out'.op \in {"activate_failed", "complete_failed"}
    /\ out'.r = bad
    /\ now' = now

\* C15: when processing one order fails during a sweep, every other order
\* that was due is still transitioned (a booked one that has started leaves
\* booked, an active one past its end date is completed), and the sweep ends
\* with its summary, which counts the one error.
C15_FailureDoesNotAbort ==
    [][\A bad \in RentalIds :
          FailsOn(bad) =>
              /\ \A r \in RentalIds \ {bad} :
                    /\ DueToStart(r) => rentals'[r].status # "PENDING"
                    /\ DueToEnd(r) => rentals'[r].status = "COMPLETED"
              /\ "errors" \in DOMAIN out'
              /\ out'.errors = 1]_vars

\* The step is the view op answering for an order.
Answers(op) == out'.op = op /\ now' = now /\ out'.r \in RentalIds

\* C16: a manual return with actual return date d of an order with end date
\* e adds daily_rate * (d - e) to total_amount when d > e and leaves
\* total_amount as it was when d <= e; the order is completed by the same
\* step.
C16_ReturnSurcharge ==
    [][Answers("return") =>
          LET r == out'.r
              d == rentals'[r].actual_return_date
              e == rentals[r].end_date
          IN  /\ rentals'[r].status = "COMPLETED"
              /\ d \in Days
              /\ rentals'[r].end_date = e
              /\ rentals'[r].total_amount =
                    IF d > e
                    THEN rentals[r].total_amount
                         + daily_rate(rentals[r].vehicle) * (d - e)
                    ELSE rentals[r].total_amount]_vars

\* C16 witness: an order was returned one day late and carries the total it
\* was created with plus one day's rate.
C16_Witness ==
    /\ out.op = "return"
    /\ LET rn == rentals[out.r]
       IN  /\ rn.status = "COMPLETED"
           /\ rn.actual_return_date = rn.end_date + 1
           /\ rn.total_amount
                 = calculate_rental_amount(rn.customer, rn.vehicle,
                                           rn.start_date, rn.end_date)
                   + daily_rate(rn.vehicle)

\* C17: a manual return is accepted only with an actual return date between
\* the order's start_date and today (any other date fails and changes
\* nothing), so the date a return has stored lies between the order's
\* start_date and the day of the return.
C17_ReturnDateValidated ==
    [][Answers("return") =>
          LET rn == rentals'[out'.r]
          IN  /\ rn.start_date <= rn.actual_return_date
              /\ rn.actual_return_date <= today]_vars

\* C18: a cancel with a reason leaves the order cancelled with the reason
\* appended to its notes; the vehicle is set available when it was rented,
\* and a vehicle that was available already stays available; nothing else
\* changes.
C18_CancelReleasesRented ==
    [][Answers("cancel") =>
          LET r == out'.r
              v == rentals[r].vehicle
          IN  /\ rentals'[r].status = "CANCELLED"
              /\ \E reason \in Reasons :
                    rentals'[r] =
                        [rentals[r] EXCEPT
                            !.status = "CANCELLED",
                            !.notes = Append(rentals[r].notes, reason)]
              /\ \A q \in RentalIds \ {r} : rentals'[q] = rentals[q]
              /\ vehicles' = IF vehicles[v] = "RENTED"
                             THEN [vehicles EXCEPT ![v] = "AVAILABLE"]
                             ELSE vehicles
              /\ vehicles'[v] = "AVAILABLE"]_vars

\* C18 witness: the second of two orders on one vehicle was cancelled after
\* the first; both carry their reason and the vehicle is available.
C18_Witness ==
    /\ out.op = "cancel"
    /\ out.r = 2
    /\ \A r \in {1, 2} :
          /\ rentals[r].status = "CANCELLED"
          /\ rentals[r].notes = <<"reason">>
          /\ rentals[r].vehicle = rentals[2].vehicle
    /\ vehicles[rentals[2].vehicle] = "AVAILABLE"

\* C19: an update of an order that is active, completed or cancelled leaves
\* the order's customer and vehicle as they were.
C19_UpdateKeepsParties ==
    [][Answers("update") =>
          LET r == out'.r
          IN  rentals[r].status \in {"ONGOING", "COMPLETED", "CANCELLED"}
                 => /\ rentals'[r].customer = rentals[r].customer
                    /\ rentals'[r].vehicle = rentals[r].vehicle]_vars

\* The subtotal of section 4.1 for a new order: the base amount less the
\* VIP discount of a tenth.
Subtotal(rn) ==
    LET base_amount ==
            daily_rate(rn.vehicle) * ((rn.end_date - rn.start_date) + 1)
    IN  IF member_level(rn.customer) = "VIP"
        THEN base_amount - base_amount \div 10
        ELSE base_amount

\* C20: a create leaves a new order that is booked and whose total_amount is
\* the calculator's subtotal; it marks the order's vehicle rented when the
\* order starts today, and leaves every vehicle's status as it was when the
\* order starts later.
C20_CreateRentsWhenImmediate ==
    [][(out'.op = "create" /\ Len(rentals') = Len(rentals) + 1) =>
          LET rn == rentals'[Len(rentals')]
          IN  /\ rn.status = "PENDING"
              /\ rn.total_amount = Subtotal(rn)
              /\ rn.start_date = today
                    => vehicles' = [vehicles EXCEPT ![rn.vehicle] = "RENTED"]
              /\ rn.start_date > today => vehicles' = vehicles]_vars

\* C21: the rental amount is rate * days less the discount, with
\* days = (end_date - start_date) + 1 >= 1 (1 for a same-day booking) and a
\* discount of exactly a tenth of rate * days for a VIP customer, 0 for
\* every other level; the cost details carry the same figures.
C21_RentalAmount ==
    out.op = "quote" =>
        LET days == (out.end_date - out.start_date) + 1
            base == out.rate * days * TenthsPerCent
            discount == base - out.total_amount
        IN  /\ days >= 1
            /\ out.start_date = out.end_date => days = 1
            /\ out.member_level = "VIP" => 10 * discount = base
            /\ out.member_level # "VIP" => discount = 0
            /\ out.cost_details.rental_days = days
            /\ out.cost_details.base_amount = base
            /\ out.cost_details.discount = discount
            /\ out.cost_details.total_amount = out.total_amount

\* C21 witness: a VIP customer was quoted a rate whose tenth is not a whole
\* number of cents.
C21_Witness ==
    /\ out.op = "quote"
    /\ out.member_level = "VIP"
    /\ out.total_amount % TenthsPerCent # 0
    /\ out.total_amount < out.rate * TenthsPerCent

\* C22: the number of vehicles the activation phase reports as set to rented
\* is the number of distinct vehicles whose status it changed from available
\* to rented.
C22_RentedCountDistinct ==
    [][ActivationCommits =>
          Len(out'.activated_vehicles) =
              Cardinality({v \in Vehicles : vehicles[v] = "AVAILABLE"
                                            /\ vehicles'[v] = "RENTED"})]_vars

\* C23: after every operation, each vehicle that has an active order is
\* rented.
C23_ActiveMeansRented ==
    \A r \in RentalIds :
        rentals[r].status = "ONGOING"
            => vehicles[rentals[r].vehicle] = "RENTED"

\* The refunds the sweep has created for rental r.
AutoRefunds(r) ==
    SumAmounts(SelectSeq(payments,
        LAMBDA p : p.rental = r /\ p.transaction_id.kind = "REF"))

C25_TotalIsBreakdown ==
    out.op \in {"create", "update", "return"} =>
        \A r \in RentalIds :
            rentals[r].total_amount * TenthsPerCent
                = calculate_rental_cost(rentals[r]).total_amount

\* C26: an order's settled_at is set only while its settlement status is
\* settled; in particular it is empty after a refresh that leaves the order
\* partial or unsettled.
C26_SettledAtOnlyWhenSettled ==
    \A r \in RentalIds :
        rentals[r].settled_at # NoTime
            => rentals[r].settlement_status = "SETTLED"

\* Vehicle v has no booked and no active order.
NoOrderOn(v) ==
    ~\E r \in RentalIds :
        /\ rentals[r].vehicle = v
        /\ rentals[r].status \in {"PENDING", "ONGOING"}

\* From some point on only the sweep runs and the clock goes: no operation
\* of the staff arrives any more.
NoNewOperations == <>[][handle \/ Tick]_vars

\* C27: if the sweep keeps being run and no new operations arrive, a rented
\* vehicle that has no booked and no active order is eventually available
\* (or an operation that still arrives puts an order on it first).
C27_IdleVehicleReleased ==
    \A v \in Vehicles :
        NoNewOperations =>
            ((vehicles[v] = "RENTED" /\ NoOrderOn(v))
                ~> (vehicles[v] = "AVAILABLE" \/ ~NoOrderOn(v)))

=============================================================================
